---- MODULE Spec2Model ----
(***************************************************************************)
(* Batched event delivery of TaglessCRM: the Google Ads store-sales        *)
(* conversions hook (ads_ssd_hook.py) and the Google Analytics 4 hook      *)
(* (ga4_hook.py).  One behaviour of Spec is one send_events call on a      *)
(* fresh blob; SpecFormat and SpecGA4 run the call on single records of    *)
(* every shape, SpecConstruct puts the constructor before it, SpecResend   *)
(* repeats it on the blob it returned.                                     *)
(*                                                                         *)
(* Python indices are kept 0-based as values; the TLA+ sequence holding    *)
(* the events is 1-based, so the record with index i is events[i + 1].     *)
(***************************************************************************)
EXTENDS Integers, Sequences, FiniteSets, TLC

VARIABLES
  hook,                       \* which hook's send_events runs: "ads" or "ga4"
  dry_run,                    \* GoogleAnalyticsV4Hook.dry_run
  events,                     \* blob.events
  position,                   \* blob.position
  failed_events,              \* blob.failed_events
  pc,                         \* position of the call inside send_events
  raised,                     \* the exception that left send_events, or "none"
  valid_events,               \* local of send_events
  invalid_indices_and_errors, \* local of send_events
  num_validation_failures,    \* how many entries of the list above validation wrote
  cursor,                     \* loop cursor: record being validated / batch offset / record being sent
  retry_set,                  \* indexed events the next mutate call of the batch carries
  attempt,                    \* mutate calls already made for the current batch
  terminal_failures,          \* failures of the current batch recorded as final
  dispatch_log,               \* the mutate calls of the latest batch: indices sent, per-operation result
  mutate_calls,               \* mutate calls made since the call began
  validate_calls,             \* requests.post calls to validate_url, by record index
  post_calls,                 \* requests.post calls to post_url, by record index
  config,                     \* the arguments the hook is constructed with
  validate_log,               \* the answers of validate_url, by call (kept by GA4ValidateLogged only)
  calls,                      \* send_events calls on the blob that have returned
  failed_at_entry             \* blob.failed_events when the current call began

vars == <<hook, dry_run, events, position, failed_events, pc, raised,
          valid_events, invalid_indices_and_errors, num_validation_failures,
          cursor, retry_set, attempt, terminal_failures, dispatch_log,
          mutate_calls, validate_calls, post_calls, config, validate_log,
          calls, failed_at_entry>>

(***************************************************************************)
(* Bounds of the model.                                                    *)
(***************************************************************************)
\* Longest blob.events of a store-sales call.
MaxEvents == 4
\* Longest blob.events of a GA4 call, which sends its records one by one.
MaxGA4Events == 3
\* Largest blob.position; a blob starts at 0 or at MaxPosition.
MaxPosition == 1
\* _DEFAULT_BATCH_SIZE is 1000 in the source; the model runs it scaled down
\* so that a blob of MaxEvents records spans more than one batch.
DEFAULT_BATCH_SIZE == 3

\* The send_events calls made on one blob in SpecResend, and the longest
\* blob.events there.
MaxCalls == 2
MaxResendEvents == 1

\* Total mutate calls the retry controller makes for one batch.
AttemptBound == 5

(***************************************************************************)
(* Generic helpers.                                                        *)
(***************************************************************************)
Range(s) == {s[k] : k \in 1..Len(s)}

Min(a, b) == IF a < b THEN a ELSE b

SeqsUpTo(S, n) == UNION {[1..k -> S] : k \in 0..n}

(***************************************************************************)
(* Store-sales records.  A record is a dict (a function from the keys it   *)
(* holds to a class of values) or something that is no dict.  Classes of   *)
(* values: NONE (None), NONSTR (a truthy non-string such as 5), EMPTY      *)
(* (''), BAD (a non-empty string that fails the field's pattern or length  *)
(* limit), GOOD (a string that passes it).                                 *)
(***************************************************************************)
Dict(d) == [isdict |-> TRUE, d |-> d]
NotADict == [isdict |-> FALSE, d |-> <<>>]

Without(d, k) == [x \in DOMAIN d \ {k} |-> d[x]]
With(d, k, v) == [x \in DOMAIN d \cup {k} |-> IF x = k THEN v ELSE d[x]]

\* errors.ErrorNameIDMap members, by name.
SHA256_ERROR == "ADS_SSD_HOOK_ERROR_PAYLOAD_FIELD_VIOLATES_SHA256_FORMAT"
MISSING_MANDATORY == "ADS_SSD_HOOK_ERROR_MISSING_MANDATORY_FIELDS"
MISSING_IDENTIFIER == "ADS_SSD_HOOK_ERROR_MISSING_IDENTIFIER_FIELD"
INVALID_TIME == "ADS_SSD_HOOK_ERROR_INVALID_FORMAT_OF_CONVERSION_TIME"
INVALID_VALUE == "ADS_SSD_HOOK_ERROR_INVALID_CONVERSION_VALUE"
INVALID_CURRENCY == "ADS_SSD_HOOK_ERROR_INVALID_CURRENCY"
INVALID_NAME_LENGTH == "ADS_SSD_HOOK_ERROR_INVALID_LENGTH_OF_CONVERSION_NAME"

Ok(v) == [tag |-> "ok", value |-> v]
Err(code) == [tag |-> "err", error_num |-> code]
Raise(exc) == [tag |-> "raise", exc |-> exc]

\* re.match(pattern, x): TypeError unless x is a string.  GOOD_NL is a GOOD
\* string with a line feed appended: '$' of _SHA256_DIGEST_PATTERN matches
\* before a trailing line feed, and _RE_STRING_DATE_TIME is open at its end.
re_match(x) ==
  CASE x \in {"NONE", "NONSTR"} -> Raise("TypeError")
    [] x \in {"GOOD", "GOOD_NL"} -> Ok(TRUE)
    [] OTHER -> Ok(FALSE)

validate_sha256_pattern(field_data) ==
  IF field_data = "NONE" THEN Err(SHA256_ERROR)
  ELSE LET m == re_match(field_data) IN
       IF m.tag = "raise" THEN m
       ELSE IF ~m.value THEN Err(SHA256_ERROR)
       ELSE Ok(TRUE)

store_sales_transaction_fields ==
  <<"transactionTime", "microAmount", "currencyCode", "conversionName">>

\* identifier_types, in the dict's insertion order.
identifier_fields ==
  <<"email", "email2", "email3", "firstName", "lastName", "city", "state",
    "zip", "country", "phoneNumber", "phoneNumber2", "phoneNumber3">>

identifier_types ==
  [email |-> "HASHED_EMAIL", email2 |-> "HASHED_EMAIL", email3 |-> "HASHED_EMAIL",
   firstName |-> "HASHED_LAST_NAME", lastName |-> "HASHED_FIRST_NAME",
   city |-> "CITY", state |-> "STATE", zip |-> "ZIPCODE", country |-> "COUNTRY_CODE",
   phoneNumber |-> "HASHED_PHONE", phoneNumber2 |-> "HASHED_PHONE",
   phoneNumber3 |-> "HASHED_PHONE"]

hashed_types ==
  {"HASHED_EMAIL", "HASHED_PHONE", "HASHED_LAST_NAME", "HASHED_FIRST_NAME"}

\* The loop over identifier_types.items(): the first failing hashed
\* identifier ends it, else the identifiers present are collected in order.
RECURSIVE user_identifiers(_, _, _)
user_identifiers(d, k, acc) ==
  IF k > Len(identifier_fields) THEN Ok(acc)
  ELSE LET field == identifier_fields[k]
           type == identifier_types[field]
       IN IF field \notin DOMAIN d THEN user_identifiers(d, k + 1, acc)
          ELSE LET check == IF type \in hashed_types
                            THEN validate_sha256_pattern(d[field])
                            ELSE Ok(TRUE)
               IN IF check.tag # "ok" THEN check
                  ELSE user_identifiers(d, k + 1,
                         Append(acc, [userIdentifierType |-> type, value |-> d[field]]))

\* Mutant: the identifiers are checked before the mandatory fields.
format_event_identifiers_first(event) ==
  IF ~event.isdict THEN Raise("AttributeError")
  ELSE
  LET d == event.d
      ids == user_identifiers(d, 1, <<>>)
  IN
  IF ids.tag # "ok" THEN ids
  ELSE IF ids.value = <<>> THEN Err(MISSING_IDENTIFIER)
  ELSE IF ~(\A k \in 1..Len(store_sales_transaction_fields) :
              store_sales_transaction_fields[k] \in DOMAIN d)
  THEN Err(MISSING_MANDATORY)
  ELSE
  LET time == re_match(d["transactionTime"]) IN
  IF time.tag = "raise" THEN time
  ELSE IF ~time.value THEN Err(INVALID_TIME)
  ELSE IF d["microAmount"] \in {"NONE", "NONSTR"} THEN Raise("AttributeError")
  ELSE IF d["microAmount"] # "GOOD" THEN Err(INVALID_VALUE)
  ELSE IF d["currencyCode"] \in {"NONE", "EMPTY"} THEN Err(INVALID_CURRENCY)
  ELSE IF d["conversionName"] \in {"NONE", "EMPTY"} THEN Err(INVALID_NAME_LENGTH)
  ELSE IF d["conversionName"] = "NONSTR" THEN Raise("TypeError")
  ELSE IF d["conversionName"] = "BAD" THEN Err(INVALID_NAME_LENGTH)
  ELSE Ok([StoreSalesTransaction |->
             [userIdentifiers |-> ids.value,
              transactionTime |-> d["transactionTime"],
              transactionAmount |->
                [money |-> [microAmount |-> d["microAmount"]],
                 currencyCode |-> d["currencyCode"]],
              conversionName |-> d["conversionName"]]])

\* Mutant: microAmount is checked before transactionTime.
format_event_amount_before_time(event) ==
  IF ~event.isdict THEN Raise("AttributeError")
  ELSE
  LET d == event.d IN
  IF ~(\A k \in 1..Len(store_sales_transaction_fields) :
         store_sales_transaction_fields[k] \in DOMAIN d)
  THEN Err(MISSING_MANDATORY)
  ELSE
  LET ids == user_identifiers(d, 1, <<>>) IN
  IF ids.tag # "ok" THEN ids
  ELSE IF ids.value = <<>> THEN Err(MISSING_IDENTIFIER)
  ELSE IF d["microAmount"] \in {"NONE", "NONSTR"} THEN Raise("AttributeError")
  ELSE IF d["microAmount"] # "GOOD" THEN Err(INVALID_VALUE)
  ELSE
  LET time == re_match(d["transactionTime"]) IN
  IF time.tag = "raise" THEN time
  ELSE IF ~time.value THEN Err(INVALID_TIME)
  ELSE IF d["currencyCode"] \in {"NONE", "EMPTY"} THEN Err(INVALID_CURRENCY)
  ELSE IF d["conversionName"] \in {"NONE", "EMPTY"} THEN Err(INVALID_NAME_LENGTH)
  ELSE IF d["conversionName"] = "NONSTR" THEN Raise("TypeError")
  ELSE IF d["conversionName"] = "BAD" THEN Err(INVALID_NAME_LENGTH)
  ELSE Ok([StoreSalesTransaction |->
             [userIdentifiers |-> ids.value,
              transactionTime |-> d["transactionTime"],
              transactionAmount |->
                [money |-> [microAmount |-> d["microAmount"]],
                 currencyCode |-> d["currencyCode"]],
              conversionName |-> d["conversionName"]]])

format_event(event) ==
  IF ~event.isdict THEN Raise("AttributeError")
  ELSE
  LET d == event.d IN
  IF ~(\A k \in 1..Len(store_sales_transaction_fields) :
         store_sales_transaction_fields[k] \in DOMAIN d)
  THEN Err(MISSING_MANDATORY)
  ELSE
  LET ids == user_identifiers(d, 1, <<>>) IN
  IF ids.tag # "ok" THEN ids
  ELSE IF ids.value = <<>> THEN Err(MISSING_IDENTIFIER)
  ELSE
  LET time == re_match(d["transactionTime"]) IN
  IF time.tag = "raise" THEN time
  ELSE IF ~time.value THEN Err(INVALID_TIME)
  \* str.isdigit: AttributeError unless microAmount is a string.
  ELSE IF d["microAmount"] \in {"NONE", "NONSTR"} THEN Raise("AttributeError")
  ELSE IF d["microAmount"] # "GOOD" THEN Err(INVALID_VALUE)
  ELSE IF d["currencyCode"] \in {"NONE", "EMPTY"} THEN Err(INVALID_CURRENCY)
  ELSE IF d["conversionName"] \in {"NONE", "EMPTY"} THEN Err(INVALID_NAME_LENGTH)
  \* len(): TypeError on a truthy value that has no length.
  ELSE IF d["conversionName"] = "NONSTR" THEN Raise("TypeError")
  ELSE IF d["conversionName"] = "BAD" THEN Err(INVALID_NAME_LENGTH)
  ELSE Ok([StoreSalesTransaction |->
             [userIdentifiers |-> ids.value,
              transactionTime |-> d["transactionTime"],
              transactionAmount |->
                [money |-> [microAmount |-> d["microAmount"]],
                 currencyCode |-> d["currencyCode"]],
              conversionName |-> d["conversionName"]]])

\* What _format_event leaves of the record it was given: it reads event with
\* `in` and event[...] and builds transaction from scratch.
event_after_format(event) == event

\* Mutant: a rejected record is dropped instead of listed with its code.
RECURSIVE validate_dropping_rejected(_, _, _, _)
validate_dropping_rejected(evs, i, valid, invalid) ==
  IF i >= Len(evs) THEN [tag |-> "ok", valid |-> valid, invalid |-> invalid]
  ELSE LET r == format_event(evs[i + 1]) IN
       CASE r.tag = "raise" -> r
         [] r.tag = "err" -> validate_dropping_rejected(evs, i + 1, valid, invalid)
         [] OTHER ->
              validate_dropping_rejected(
                evs, i + 1, Append(valid, <<i, r.value>>), invalid)

\* _validate_and_prepare_events_to_send: the first record whose formatting
\* raises something other than DataOutConnectorValueError ends the loop.
RECURSIVE validate_and_prepare_events_to_send(_, _, _, _)
validate_and_prepare_events_to_send(evs, i, valid, invalid) ==
  IF i >= Len(evs) THEN [tag |-> "ok", valid |-> valid, invalid |-> invalid]
  ELSE LET r == format_event(evs[i + 1]) IN
       CASE r.tag = "raise" -> r
         [] r.tag = "err" ->
              validate_and_prepare_events_to_send(
                evs, i + 1, valid, Append(invalid, <<i, r.error_num>>))
         [] OTHER ->
              validate_and_prepare_events_to_send(
                evs, i + 1, Append(valid, <<i, r.value>>), invalid)

\* Mutant: the slice ends one element late, events[i:i + size + 1].
batch_generator_long_slices(evs) ==
  [b \in 1..((Len(evs) + DEFAULT_BATCH_SIZE - 1) \div DEFAULT_BATCH_SIZE) |->
     SubSeq(evs, (b - 1) * DEFAULT_BATCH_SIZE + 1,
            Min(b * DEFAULT_BATCH_SIZE + 1, Len(evs)))]

\* _batch_generator: events[i:i + _DEFAULT_BATCH_SIZE] for i in
\* range(0, len(events), _DEFAULT_BATCH_SIZE), as the sequence of its yields.
batch_generator(evs) ==
  [b \in 1..((Len(evs) + DEFAULT_BATCH_SIZE - 1) \div DEFAULT_BATCH_SIZE) |->
     SubSeq(evs, (b - 1) * DEFAULT_BATCH_SIZE + 1,
            Min(b * DEFAULT_BATCH_SIZE, Len(evs)))]

\* Mutant: the except clause lists every accepted event, not the batch's.
batch_failures_all_valid(batch, error_num) ==
  [k \in 1..Len(valid_events) |-> <<valid_events[k][1], error_num>>]

\* Mutant: the except clause lists the batch's events last to first.
batch_failures_reversed(batch, error_num) ==
  [k \in 1..Len(batch) |-> <<batch[Len(batch) + 1 - k][1], error_num>>]

\* Mutant: the except clause lists the batch's first event only.
batch_failures_first_event(batch, error_num) ==
  <<<<batch[1][1], error_num>>>>

\* The except clause of send_events: every event of the batch fails with
\* the error's code.
batch_failures(batch, error_num) ==
  [k \in 1..Len(batch) |-> <<batch[k][1], error_num>>]

\* error_num.value of a member of errors.ErrorNameIDMap: the number the enum
\* gives the member, kept apart from the member itself.
ErrorValue(error_num) == [value_of |-> error_num]

\* Mutant: the closing loop reports the local index, without blob.position.
append_failed_events_local_index(failed, invalid, evs, pos) ==
  failed \o [k \in 1..Len(invalid) |->
               <<invalid[k][1], evs[invalid[k][1] + 1],
                 ErrorValue(invalid[k][2])>>]

\* Mutant: the closing loop starts from an empty blob.failed_events.
append_failed_events_from_empty(failed, invalid, evs, pos) ==
  [k \in 1..Len(invalid) |->
     <<invalid[k][1] + pos, evs[invalid[k][1] + 1], ErrorValue(invalid[k][2])>>]

\* The closing loop of either send_events: one blob.append_failed_event per
\* entry, in list order.
append_failed_events(failed, invalid, evs, pos) ==
  failed \o [k \in 1..Len(invalid) |->
               <<invalid[k][1] + pos, evs[invalid[k][1] + 1],
                 ErrorValue(invalid[k][2])>>]

(***************************************************************************)
(* GoogleAdsHook.add_store_sales_conversions: the dispatcher and its retry *)
(* controller.  One mutate call carries the operations of retry_set; the   *)
(* response names failed operations by position, every other one is a      *)
(* success.                                                                *)
(***************************************************************************)
RETRIABLE_CODE == "RETRIABLE_TRANSIENT_ERROR"
TERMINAL_CODE == "CONVERSION_PRECEDES_CLICK"
AUTH_CODE == "AUTHENTICATION_FAILED"

OperationResults == {"SUCCESS", "RETRIABLE", "NON_RETRIABLE"}

\* What one mutate call can come back with, for n operations.
MutateResponses(n) ==
  {[auth |-> FALSE, result |-> r] : r \in [1..n -> OperationResults]}
    \cup {[auth |-> TRUE, result |-> [k \in 1..n |-> "AUTH"]]}

RECURSIVE select_by_result(_, _, _, _)
select_by_result(sent, result, which, k) ==
  IF k > Len(sent) THEN <<>>
  ELSE (IF result[k] = which THEN <<sent[k]>> ELSE <<>>)
         \o select_by_result(sent, result, which, k + 1)

\* Mutant: every operation the response names is sent again, rejected or not.
all_failed(sent, result) ==
  select_by_result(sent, result, "RETRIABLE", 1)
    \o select_by_result(sent, result, "NON_RETRIABLE", 1)

\* The operations to send again: those the response names as transient.
retriable_failed(sent, result) == select_by_result(sent, result, "RETRIABLE", 1)

\* The operations the response names as rejected for good.
terminal_failed(sent, result) == select_by_result(sent, result, "NON_RETRIABLE", 1)

with_code(sent, code) == [k \in 1..Len(sent) |-> <<sent[k][1], code>>]

\* Mutant: the retry decision does not look at the attempts made.
retries_again_unbounded(response, attempts_made) ==
  /\ ~response.auth
  /\ \E k \in DOMAIN response.result : response.result[k] = "RETRIABLE"

\* Another mutate call follows when some operation failed retriably and the
\* attempts made, this one included, are fewer than the bound.
retries_again(response, attempts_made) ==
  /\ ~response.auth
  /\ \E k \in DOMAIN response.result : response.result[k] = "RETRIABLE"
  /\ attempts_made < AttemptBound

\* The failures the controller ends the batch with.
final_failures(sent, response, recorded) ==
  IF response.auth THEN recorded \o with_code(sent, AUTH_CODE)
  ELSE recorded
         \o with_code(terminal_failed(sent, response.result), TERMINAL_CODE)
         \o with_code(retriable_failed(sent, response.result), RETRIABLE_CODE)

(***************************************************************************)
(* Google Analytics 4 records, requests and responses.                     *)
(***************************************************************************)
INVALID_JSON_STRUCTURE == "GA4_HOOK_ERROR_INVALID_JSON_STRUCTURE"
RETRIABLE_GA4_HTTP_ERROR == "RETRIABLE_GA4_HOOK_ERROR_HTTP_ERROR"
RETRIABLE_GA_HTTP_ERROR == "RETRIABLE_GA_HOOK_ERROR_HTTP_ERROR"
INVALID_VALUES == "GA4_HOOK_ERROR_INVALID_VALUES"

\* _ERROR_TYPES, keys in insertion order.
ERROR_TYPE_KEYS ==
  <<"client_id", "user_id", "timestamp_micros", "user_properties",
    "non_personalized_ads", "events", "events.params", "events.params.items">>

ERROR_TYPES ==
  [k \in Range(ERROR_TYPE_KEYS) |->
     CASE k = "client_id" -> "GA4_HOOK_ERROR_VALUE_REQUIRED_CLIENT_ID"
       [] k = "user_id" -> "GA4_HOOK_ERROR_VALUE_INVALID_USER_ID"
       [] k = "timestamp_micros" -> "GA4_HOOK_ERROR_VALUE_INVALID_TIMESTAMP_MICROS"
       [] k = "user_properties" -> "GA4_HOOK_ERROR_VALUE_INVALID_USER_PROPERTIES"
       [] k = "non_personalized_ads" ->
            "GA4_HOOK_ERROR_VALUE_INVALID_NON_PERSONALIZED_ADS"
       [] k = "events" -> "GA4_HOOK_ERROR_VALUE_INVALID_EVENTS"
       [] k = "events.params" -> "GA4_HOOK_ERROR_VALUE_INVALID_EVENTS_PARAMS"
       [] OTHER -> "GA4_HOOK_ERROR_VALUE_INVALID_EVENTS_PARAMS_ITEMS"]

\* A validation message: its fieldPath, and its description as the set of
\* table keys that occur in it as substrings.
Message(field_path, mentions) == [fieldPath |-> field_path, description |-> mentions]

\* Lines 192-206: the first table key, in table order, that equals the
\* field path or occurs in the description decides the code.
classify_message(message) ==
  LET hits == {k \in 1..Len(ERROR_TYPE_KEYS) :
                 \/ message.fieldPath = ERROR_TYPE_KEYS[k]
                 \/ ERROR_TYPE_KEYS[k] \in message.description}
  IN IF hits = {} THEN INVALID_VALUES
     ELSE ERROR_TYPES[ERROR_TYPE_KEYS[CHOOSE k \in hits : \A h \in hits : k <= h]]

\* Mutant: the except clause names KeyError only.
parse_event_catching_key_error(event) ==
  IF ~event.isdict THEN Raise("TypeError")
  ELSE IF "id" \notin DOMAIN event.d \/ "payload" \notin DOMAIN event.d
       THEN Err(INVALID_JSON_STRUCTURE)
  ELSE CASE event.d["payload"] = "NONSTR" -> Raise("TypeError")
         [] event.d["payload"] = "BADJSON" -> Raise("JSONDecodeError")
         [] event.d["payload"] = "NONOBJ" -> Raise("TypeError")
         [] OTHER -> Ok("payload_dict")

\* Lines 163-173: reading 'id' and 'payload', json.loads, and the item
\* assignment on what json.loads returned.
parse_event(event) ==
  IF ~event.isdict THEN Raise("TypeError")
  ELSE IF "id" \notin DOMAIN event.d \/ "payload" \notin DOMAIN event.d
       THEN Err(INVALID_JSON_STRUCTURE)
  ELSE CASE event.d["payload"] = "NONSTR" -> Raise("TypeError")
         [] event.d["payload"] = "BADJSON" -> Err(INVALID_JSON_STRUCTURE)
         [] event.d["payload"] = "NONOBJ" -> Raise("TypeError")
         [] OTHER -> Ok("payload_dict")

\* Mutant: validationBehavior is written into the record itself.
event_stamped(event) ==
  IF event.isdict THEN Dict(With(event.d, "validationBehavior", "GOOD")) ELSE event

\* What lines 163-173 leave of the record: json.loads builds payload_dict
\* anew and the item assignment of line 173 writes to payload_dict.
event_after_validate(event) == event

\* Mutant: any 2xx status of the validate URL goes on to the messages.
classify_response_any_2xx(response) ==
  CASE response.kind = "ConnectionError" -> Err(RETRIABLE_GA4_HTTP_ERROR)
    [] response.kind # "Response" -> Raise(response.kind)
    [] response.status_code < 200 \/ response.status_code >= 300 ->
         Err(RETRIABLE_GA4_HTTP_ERROR)
    [] ~response.haskey -> Raise("KeyError")
    [] response.validationMessages = <<>> -> Ok(TRUE)
    [] OTHER -> Err(classify_message(response.validationMessages[1]))

\* Mutant: the last validation message decides the code.
classify_response_last_message(response) ==
  CASE response.kind = "ConnectionError" -> Err(RETRIABLE_GA4_HTTP_ERROR)
    [] response.kind # "Response" -> Raise(response.kind)
    [] response.status_code # 200 -> Err(RETRIABLE_GA4_HTTP_ERROR)
    [] ~response.haskey -> Raise("KeyError")
    [] response.validationMessages = <<>> -> Ok(TRUE)
    [] OTHER -> Err(classify_message(
                      response.validationMessages[Len(response.validationMessages)]))

\* Lines 175-208: what the answer of the validate URL makes of the record.
\* requests.post raising anything but ConnectionError leaves the method.
classify_response(response) ==
  CASE response.kind = "ConnectionError" -> Err(RETRIABLE_GA4_HTTP_ERROR)
    [] response.kind # "Response" -> Raise(response.kind)
    [] response.status_code # 200 -> Err(RETRIABLE_GA4_HTTP_ERROR)
    [] ~response.haskey -> Raise("KeyError")
    [] response.validationMessages = <<>> -> Ok(TRUE)
    [] OTHER -> Err(classify_message(response.validationMessages[1]))

\* Mutant: a failed post is reported with the validate URL's code.
classify_post_validate_code(response) ==
  CASE response.kind = "ConnectionError" -> Err(RETRIABLE_GA4_HTTP_ERROR)
    [] response.status_code < 200 \/ response.status_code >= 300 ->
         Err(RETRIABLE_GA4_HTTP_ERROR)
    [] OTHER -> Ok(TRUE)

\* Lines 233-242: what the answer of the post URL makes of the record.
classify_post(response) ==
  CASE response.kind = "ConnectionError" -> Err(RETRIABLE_GA_HTTP_ERROR)
    [] response.status_code < 200 \/ response.status_code >= 300 ->
         Err(RETRIABLE_GA_HTTP_ERROR)
    [] OTHER -> Ok(TRUE)

(***************************************************************************)
(* Construction of the hooks.  A constructor argument is NONE, EMPTY ('')  *)
(* or GOOD (a non-empty string); payload_type is "gtag", "firebase" or     *)
(* "other".                                                                *)
(***************************************************************************)
Falsy == {"NONE", "EMPTY"}

\* Mutant: the measurement id of a gtag hook is not looked at.
validate_credentials_no_measurement_id(cfg) ==
  IF cfg.api_secret \in Falsy THEN Raise("DataOutConnectorAuthenticationError")
  ELSE IF cfg.payload_type \notin {"firebase", "gtag"}
       THEN Raise("DataOutConnectorError")
  ELSE IF cfg.payload_type = "firebase" /\ cfg.firebase_app_id \in Falsy
       THEN Raise("DataOutConnectorError")
  ELSE Ok(TRUE)

\* GoogleAnalyticsV4Hook._validate_credentials.
validate_credentials(cfg) ==
  IF cfg.api_secret \in Falsy THEN Raise("DataOutConnectorAuthenticationError")
  ELSE IF cfg.payload_type \notin {"firebase", "gtag"}
       THEN Raise("DataOutConnectorError")
  ELSE IF cfg.payload_type = "firebase" /\ cfg.firebase_app_id \in Falsy
       THEN Raise("DataOutConnectorError")
  ELSE IF cfg.payload_type = "gtag" /\ cfg.measurement_id \in Falsy
       THEN Raise("DataOutConnectorError")
  ELSE Ok(TRUE)

\* GoogleAdsStoreSalesConversionsHook._validate_init_params.
validate_init_params(cfg) ==
  IF cfg.external_upload_id \in Falsy THEN Raise("DataOutConnectorValueError")
  ELSE Ok(TRUE)

\* The arguments of the hook the calls of Spec run on, one per hook.
ConstructedConfig(h) ==
  IF h = "ads" THEN [external_upload_id |-> "GOOD"]
  ELSE [api_secret |-> "GOOD", payload_type |-> "gtag",
        measurement_id |-> "GOOD", firebase_app_id |-> "NONE"]

(***************************************************************************)
(* The inputs of one call.                                                 *)
(***************************************************************************)
GoodTransaction ==
  [email |-> "GOOD", transactionTime |-> "GOOD", microAmount |-> "GOOD",
   currencyCode |-> "GOOD", conversionName |-> "GOOD"]

\* The store-sales records a blob is drawn from: a well-formed one, one
\* without microAmount, one whose microAmount is a number, and one that is
\* no dict.
AdsEvents ==
  {Dict(GoodTransaction),
   Dict(Without(GoodTransaction, "microAmount")),
   Dict(With(GoodTransaction, "microAmount", "NONSTR")),
   NotADict}

\* The GA4 records a blob is drawn from.  payload is OBJ (a JSON object),
\* NONOBJ (JSON that is no object), BADJSON (no JSON) or NONSTR (no string).
GA4Events ==
  {Dict([id |-> "GOOD", payload |-> "OBJ"]),
   Dict([id |-> "GOOD", payload |-> "BADJSON"]),
   Dict([payload |-> "OBJ"]),
   Dict([id |-> "GOOD", payload |-> "NONOBJ"]),
   NotADict}

\* Longest validationMessages list of a response.
MaxMessages == 2

\* The messages a response is drawn from: one whose field path is a table
\* key, one whose description mentions events.params (and so events), and
\* one that matches no table key.
Messages ==
  {Message("client_id", {}),
   Message("NONE", {"events", "events.params"}),
   Message("NONE", {})}

ConnectionError == [kind |-> "ConnectionError"]

Response(status_code, haskey, messages) ==
  [kind |-> "Response", status_code |-> status_code, haskey |-> haskey,
   validationMessages |-> messages]

ValidateResponses ==
  {ConnectionError, Response(500, FALSE, <<>>), Response(204, FALSE, <<>>),
   Response(200, FALSE, <<>>)}
    \cup {Response(200, TRUE, m) : m \in SeqsUpTo(Messages, MaxMessages)}

PostResponses ==
  {ConnectionError, Response(500, FALSE, <<>>), Response(204, FALSE, <<>>),
   Response(200, FALSE, <<>>)}

(***************************************************************************)
(* The state machine.                                                      *)
(***************************************************************************)
\* What a call finds on entry to send_events on a fresh blob: nothing
\* failed, the locals empty.
FreshCall ==
  /\ failed_events = <<>>
  /\ raised = "none"
  /\ valid_events = <<>>
  /\ invalid_indices_and_errors = <<>>
  /\ num_validation_failures = 0
  /\ cursor = 0
  /\ retry_set = <<>>
  /\ attempt = 0
  /\ terminal_failures = <<>>
  /\ dispatch_log = <<>>
  /\ mutate_calls = 0
  /\ validate_calls = <<>>
  /\ post_calls = <<>>
  /\ validate_log = <<>>
  /\ calls = 0
  /\ failed_at_entry = <<>>

Init ==
  /\ hook \in {"ads", "ga4"}
  /\ config = ConstructedConfig(hook)
  /\ dry_run \in (IF hook = "ga4" THEN BOOLEAN ELSE {FALSE})
  /\ events \in (IF hook = "ads" THEN SeqsUpTo(AdsEvents, MaxEvents)
                  ELSE SeqsUpTo(GA4Events, MaxGA4Events))
  /\ position \in {0, MaxPosition}
  /\ pc = "validate"
  /\ FreshCall

\* An exception nothing in send_events catches leaves the call.
Propagate(exc) ==
  /\ pc' = "raised"
  /\ raised' = exc

\* The batch the loop of send_events is at; cursor counts the batches done.
current_batch == batch_generator(valid_events)[cursor + 1]

\* ads_ssd_hook.send_events, lines 246-248.
AdsValidate ==
  /\ hook = "ads" /\ pc = "validate"
  /\ LET r == validate_and_prepare_events_to_send(events, 0, <<>>, <<>>) IN
     IF r.tag = "raise"
     THEN /\ Propagate(r.exc)
          /\ UNCHANGED <<valid_events, invalid_indices_and_errors,
                         num_validation_failures, retry_set>>
     ELSE /\ valid_events' = r.valid
          /\ invalid_indices_and_errors' = r.invalid
          /\ num_validation_failures' = Len(r.invalid)
          /\ retry_set' = IF r.valid = <<>> THEN <<>>
                          ELSE batch_generator(r.valid)[1]
          /\ pc' = "dispatch"
          /\ raised' = raised
  /\ events' = [k \in DOMAIN events |-> event_after_format(events[k])]
  /\ UNCHANGED <<config, failed_at_entry, calls, validate_log, hook, dry_run,
                 position, failed_events, cursor, attempt, terminal_failures,
                 dispatch_log, mutate_calls, validate_calls, post_calls>>

\* One mutate call of add_store_sales_conversions for the current batch,
\* and, when it was the batch's last, the rest of the loop body of
\* send_events (lines 250-257).
AdsDispatch ==
  /\ hook = "ads" /\ pc = "dispatch"
  /\ cursor < Len(batch_generator(valid_events))
  /\ \E response \in MutateResponses(Len(retry_set)) :
       LET sent == retry_set
           entry == [batch |-> cursor,
                     sent |-> [k \in 1..Len(sent) |-> sent[k][1]],
                     auth |-> response.auth,
                     result |-> response.result]
       IN /\ dispatch_log' = IF attempt = 0 THEN <<entry>>
                              ELSE Append(dispatch_log, entry)
          /\ mutate_calls' = mutate_calls + 1
          /\ IF retries_again(response, attempt + 1)
             THEN /\ retry_set' = retriable_failed(sent, response.result)
                  /\ attempt' = attempt + 1
                  /\ terminal_failures' =
                       terminal_failures
                         \o with_code(terminal_failed(sent, response.result),
                                      TERMINAL_CODE)
                  /\ UNCHANGED <<cursor, invalid_indices_and_errors>>
             ELSE LET final == final_failures(sent, response, terminal_failures)
                      batches == batch_generator(valid_events)
                  IN /\ invalid_indices_and_errors' =
                          IF final = <<>> THEN invalid_indices_and_errors
                          ELSE invalid_indices_and_errors
                                 \o batch_failures(current_batch, final[1][2])
                     /\ cursor' = cursor + 1
                     /\ retry_set' = IF cursor + 1 < Len(batches)
                                     THEN batches[cursor + 2] ELSE <<>>
                     /\ attempt' = 0
                     /\ terminal_failures' = <<>>
  /\ UNCHANGED <<config, failed_at_entry, calls, validate_log, hook, dry_run,
                 events, position, failed_events, pc, raised, valid_events,
                 num_validation_failures, validate_calls, post_calls>>

\* Mutant: the loop over the batches is left after its first turn.
AdsBatchesDone_after_first_batch ==
  /\ hook = "ads" /\ pc = "dispatch"
  /\ attempt = 0
  /\ cursor >= Min(1, Len(batch_generator(valid_events)))
  /\ pc' = "aggregate"
  /\ UNCHANGED <<config, failed_at_entry, calls, validate_log, hook, dry_run,
                 events, position, failed_events, raised, valid_events,
                 invalid_indices_and_errors, num_validation_failures, cursor,
                 retry_set, attempt, terminal_failures, dispatch_log,
                 mutate_calls, validate_calls, post_calls>>

\* The generator is exhausted: the loop over the batches ends.
AdsBatchesDone ==
  /\ hook = "ads" /\ pc = "dispatch"
  /\ cursor >= Len(batch_generator(valid_events))
  /\ pc' = "aggregate"
  /\ UNCHANGED <<config, failed_at_entry, calls, validate_log, hook, dry_run,
                 events, position, failed_events, raised, valid_events,
                 invalid_indices_and_errors, num_validation_failures, cursor,
                 retry_set, attempt, terminal_failures, dispatch_log,
                 mutate_calls, validate_calls, post_calls>>

\* One turn of the loop of _validate_events_to_send (lines 162-208), the
\* validate URL answering from responses; logged says whether the answer is
\* kept in validate_log.
GA4ValidateStep(responses, logged) ==
  /\ hook = "ga4" /\ pc = "validate"
  /\ cursor < Len(events)
  /\ LET i == cursor
         event == events[i + 1]
         parsed == parse_event(event)
     IN CASE parsed.tag = "raise" ->
               /\ Propagate(parsed.exc)
               /\ UNCHANGED <<events, valid_events, invalid_indices_and_errors,
                              num_validation_failures, cursor, validate_calls,
                              validate_log>>
          [] parsed.tag = "err" ->
               /\ invalid_indices_and_errors' =
                    Append(invalid_indices_and_errors, <<i, parsed.error_num>>)
               /\ num_validation_failures' = num_validation_failures + 1
               /\ cursor' = i + 1
               /\ UNCHANGED <<events, pc, raised, valid_events, validate_calls,
                              validate_log>>
          [] OTHER ->
               \E response \in responses :
                 LET r == classify_response(response) IN
                 /\ events' = [events EXCEPT ![i + 1] = event_after_validate(event)]
                 /\ validate_calls' = Append(validate_calls, i)
                 /\ validate_log' = IF logged THEN Append(validate_log, response)
                                    ELSE validate_log
                 /\ CASE r.tag = "raise" ->
                           /\ Propagate(r.exc)
                           /\ UNCHANGED <<valid_events, invalid_indices_and_errors,
                                          num_validation_failures, cursor>>
                      [] r.tag = "err" ->
                           /\ invalid_indices_and_errors' =
                                Append(invalid_indices_and_errors, <<i, r.error_num>>)
                           /\ num_validation_failures' = num_validation_failures + 1
                           /\ cursor' = i + 1
                           /\ UNCHANGED <<pc, raised, valid_events>>
                      [] OTHER ->
                           /\ valid_events' = Append(valid_events, <<i, event>>)
                           /\ cursor' = i + 1
                           /\ UNCHANGED <<pc, raised, invalid_indices_and_errors,
                                          num_validation_failures>>
  /\ UNCHANGED <<config, failed_at_entry, calls, hook, dry_run, position,
                 failed_events, retry_set, attempt, terminal_failures,
                 dispatch_log, mutate_calls, post_calls>>

GA4Validate == GA4ValidateStep(ValidateResponses, FALSE)

\* _validate_events_to_send returns (line 210).
GA4ValidateDone ==
  /\ hook = "ga4" /\ pc = "validate"
  /\ cursor >= Len(events)
  /\ pc' = "send"
  /\ cursor' = 0
  /\ UNCHANGED <<config, failed_at_entry, calls, validate_log, hook, dry_run,
                 events, position, failed_events, raised, valid_events,
                 invalid_indices_and_errors, num_validation_failures,
                 retry_set, attempt, terminal_failures, dispatch_log,
                 mutate_calls, validate_calls, post_calls>>

\* Mutant: _send_payload posts whether dry_run is set or not.
GA4Send_ignoring_dry_run ==
  /\ hook = "ga4" /\ pc = "send"
  /\ cursor < Len(valid_events)
  /\ LET valid_event == valid_events[cursor + 1] IN
     \E response \in PostResponses :
       LET r == classify_post(response) IN
       /\ post_calls' = Append(post_calls, valid_event[1])
       /\ invalid_indices_and_errors' =
            IF r.tag = "err"
            THEN Append(invalid_indices_and_errors,
                        <<valid_event[1], r.error_num>>)
            ELSE invalid_indices_and_errors
  /\ cursor' = cursor + 1
  /\ UNCHANGED <<config, failed_at_entry, calls, validate_log, hook, dry_run,
                 events, position, failed_events, pc, raised, valid_events,
                 num_validation_failures, retry_set, attempt,
                 terminal_failures, dispatch_log, mutate_calls, validate_calls>>

\* One turn of the loop of ga4_hook.send_events (lines 256-263), with
\* _send_payload (lines 226-242).
GA4Send ==
  /\ hook = "ga4" /\ pc = "send"
  /\ cursor < Len(valid_events)
  /\ LET valid_event == valid_events[cursor + 1] IN
     IF dry_run
     THEN UNCHANGED <<post_calls, invalid_indices_and_errors>>
     ELSE \E response \in PostResponses :
            LET r == classify_post(response) IN
            /\ post_calls' = Append(post_calls, valid_event[1])
            /\ invalid_indices_and_errors' =
                 IF r.tag = "err"
                 THEN Append(invalid_indices_and_errors,
                             <<valid_event[1], r.error_num>>)
                 ELSE invalid_indices_and_errors
  /\ cursor' = cursor + 1
  /\ UNCHANGED <<config, failed_at_entry, calls, validate_log, hook, dry_run,
                 events, position, failed_events, pc, raised, valid_events,
                 num_validation_failures, retry_set, attempt,
                 terminal_failures, dispatch_log, mutate_calls, validate_calls>>

\* The loop over valid_events ends.
GA4SendDone ==
  /\ hook = "ga4" /\ pc = "send"
  /\ cursor >= Len(valid_events)
  /\ pc' = "aggregate"
  /\ UNCHANGED <<config, failed_at_entry, calls, validate_log, hook, dry_run,
                 events, position, failed_events, raised, valid_events,
                 invalid_indices_and_errors, num_validation_failures, cursor,
                 retry_set, attempt, terminal_failures, dispatch_log,
                 mutate_calls, validate_calls, post_calls>>

\* The closing loop and the return of either send_events
\* (ads_ssd_hook.py 259-263, ga4_hook.py 265-271).
Aggregate ==
  /\ pc = "aggregate"
  /\ failed_events' =
       append_failed_events(failed_events, invalid_indices_and_errors,
                            events, position)
  /\ pc' = "done"
  /\ calls' = calls + 1
  /\ UNCHANGED <<config, failed_at_entry, validate_log, hook, dry_run, events,
                 position, raised, valid_events, invalid_indices_and_errors,
                 num_validation_failures, cursor, retry_set, attempt,
                 terminal_failures, dispatch_log, mutate_calls, validate_calls,
                 post_calls>>

Next ==
  \/ AdsValidate
  \/ AdsDispatch
  \/ AdsBatchesDone
  \/ GA4Validate
  \/ GA4ValidateDone
  \/ GA4Send
  \/ GA4SendDone
  \/ Aggregate

Spec == Init /\ [][Next]_vars

(***************************************************************************)
(* _format_event over the records it can be given: send_events of the      *)
(* store-sales hook on a blob of one record, or of two records that each   *)
(* lack one mandatory field.                                               *)
(***************************************************************************)
\* The classes a field's value is drawn from; GOOD_NL only for the hashed
\* identifiers.
FieldValues == {"NONE", "NONSTR", "EMPTY", "BAD", "GOOD"}
IdentifierValues == FieldValues \cup {"GOOD_NL"}

HashedFields ==
  {"email", "email2", "email3", "firstName", "lastName", "phoneNumber",
   "phoneNumber2", "phoneNumber3"}

\* The dict holding the items of both; f's item where both hold the key.
Merge(f, g) ==
  [x \in DOMAIN f \cup DOMAIN g |-> IF x \in DOMAIN f THEN f[x] ELSE g[x]]

\* Every way to hold some of the four transaction fields, each with any
\* class of value.
TransactionParts ==
  UNION {[S -> FieldValues] : S \in SUBSET Range(store_sales_transaction_fields)}

\* No identifier, one identifier with any class of value, a GOOD email next
\* to another hashed identifier of any class, or a GOOD phoneNumber3 behind
\* an email of any class.
IdentifierParts ==
  {<<>>}
    \cup {[x \in {f} |-> v] : f \in Range(identifier_fields), v \in IdentifierValues}
    \cup {[x \in {"email", f} |-> IF x = "email" THEN "GOOD" ELSE v] :
            f \in HashedFields \ {"email"}, v \in IdentifierValues}
    \cup {[x \in {"email", "phoneNumber3"} |-> IF x = "email" THEN v ELSE "GOOD"] :
            v \in IdentifierValues}

FormatEvents ==
  {Dict(Merge(t, i)) : t \in TransactionParts, i \in IdentifierParts}
    \cup {NotADict}

\* A well-formed record with one of the mandatory fields taken out.
LackingOne ==
  {Dict(Without(GoodTransaction, f)) : f \in Range(store_sales_transaction_fields)}

InitFormat ==
  /\ hook = "ads"
  /\ config = ConstructedConfig(hook)
  /\ dry_run = FALSE
  /\ events \in {<<e>> : e \in FormatEvents}
                  \cup {<<e1, e2>> : e1 \in LackingOne, e2 \in LackingOne}
  /\ position = 0
  /\ pc = "validate"
  /\ FreshCall

NextFormat ==
  \/ AdsValidate
  \/ AdsDispatch
  \/ AdsBatchesDone
  \/ Aggregate

SpecFormat == InitFormat /\ [][NextFormat]_vars

(***************************************************************************)
(* _validate_events_to_send over the records and the answers it can be     *)
(* given: send_events of the GA4 hook on a blob of one record, or of two   *)
(* records that json parsing rejects, the answers of the validate URL kept *)
(* in validate_log.                                                        *)
(***************************************************************************)
FieldPaths == Range(ERROR_TYPE_KEYS) \cup {"NONE"}

\* The table keys a description can mention: a description that mentions
\* events.params mentions events, its substring, as well.
Descriptions ==
  {{}, {"client_id"}, {"user_id"}, {"events"}, {"events", "events.params"},
   {"events", "events.params", "events.params.items"}}

AllMessages == {Message(p, d) : p \in FieldPaths, d \in Descriptions}

\* requests.post raising an exception that is no ConnectionError.
ReadTimeout == [kind |-> "ReadTimeout"]

AllValidateResponses ==
  {ConnectionError, ReadTimeout}
    \cup {Response(c, FALSE, <<>>) : c \in {200, 201, 204, 301, 400, 500}}
    \cup {Response(200, TRUE, m) : m \in SeqsUpTo(AllMessages, MaxMessages)}
    \cup {Response(c, TRUE, <<>>) : c \in {201, 204, 500}}
    \cup {Response(c, TRUE, <<m>>) : c \in {201, 500}, m \in AllMessages}

AllGA4Events ==
  {Dict(d) : d \in UNION {[S -> {"GOOD"}] : S \in SUBSET {"id"}}}
    \cup {Dict(Merge(d, [payload |-> v])) :
            d \in UNION {[S -> {"GOOD"}] : S \in SUBSET {"id"}},
            v \in {"OBJ", "NONOBJ", "BADJSON", "NONSTR"}}
    \cup {NotADict}

\* The records without 'id', without 'payload' or with a payload that is no
\* JSON.
UnparseableGA4Events ==
  {e \in AllGA4Events \ {NotADict} :
     \/ "id" \notin DOMAIN e.d
     \/ "payload" \notin DOMAIN e.d
     \/ e.d["payload"] = "BADJSON"}

InitGA4 ==
  /\ hook = "ga4"
  /\ config = ConstructedConfig(hook)
  /\ dry_run \in BOOLEAN
  /\ events \in {<<e>> : e \in AllGA4Events}
                  \cup {<<e1, e2>> : e1 \in UnparseableGA4Events,
                                     e2 \in UnparseableGA4Events}
  /\ position = 0
  /\ pc = "validate"
  /\ FreshCall

GA4ValidateLogged == GA4ValidateStep(AllValidateResponses, TRUE)

NextGA4 ==
  \/ GA4ValidateLogged
  \/ GA4ValidateDone
  \/ GA4Send
  \/ GA4SendDone
  \/ Aggregate

SpecGA4 == InitGA4 /\ [][NextGA4]_vars

(***************************************************************************)
(* Construction followed by send_events: the hook is built from arguments  *)
(* of any kind, and a call on a blob of at most one record follows when    *)
(* the constructor has returned.                                           *)
(***************************************************************************)
ArgumentValues == {"NONE", "EMPTY", "GOOD"}

GA4Configs ==
  [api_secret : ArgumentValues, payload_type : {"gtag", "firebase", "other"},
   measurement_id : ArgumentValues, firebase_app_id : ArgumentValues]

AdsConfigs == [external_upload_id : ArgumentValues]

InitConstruct ==
  /\ hook \in {"ads", "ga4"}
  /\ config \in (IF hook = "ads" THEN AdsConfigs ELSE GA4Configs)
  /\ dry_run \in (IF hook = "ga4" THEN BOOLEAN ELSE {FALSE})
  /\ events \in {<<>>} \cup {<<e>> : e \in (IF hook = "ads" THEN AdsEvents
                                                          ELSE GA4Events)}
  /\ position = 0
  /\ pc = "new"
  /\ FreshCall

\* __init__ of either hook (ga4_hook.py 70-83, ads_ssd_hook.py 58-76); the
\* constructor of the base class GoogleAdsHook is taken to return.
Construct ==
  /\ pc = "new"
  /\ LET r == IF hook = "ads" THEN validate_init_params(config)
              ELSE validate_credentials(config)
     IN IF r.tag = "raise" THEN Propagate(r.exc)
        ELSE pc' = "validate" /\ raised' = raised
  /\ UNCHANGED <<config, failed_at_entry, calls, validate_log, hook, dry_run,
                 events, position, failed_events, valid_events,
                 invalid_indices_and_errors, num_validation_failures, cursor,
                 retry_set, attempt, terminal_failures, dispatch_log,
                 mutate_calls, validate_calls, post_calls>>

NextConstruct ==
  \/ Construct
  \/ Next

SpecConstruct == InitConstruct /\ [][NextConstruct]_vars

(***************************************************************************)
(* send_events called again on the blob a call has returned: the blob      *)
(* keeps its events, position and failed_events, the locals start anew.    *)
(***************************************************************************)
InitResend ==
  /\ hook \in {"ads", "ga4"}
  /\ config = ConstructedConfig(hook)
  /\ dry_run \in (IF hook = "ga4" THEN BOOLEAN ELSE {FALSE})
  /\ events \in SeqsUpTo(IF hook = "ads" THEN AdsEvents ELSE GA4Events,
                         MaxResendEvents)
  /\ position \in {0, MaxPosition}
  /\ pc = "validate"
  /\ FreshCall

\* The entry of the next send_events call on the same blob.
SendAgain ==
  /\ pc = "done"
  /\ calls < MaxCalls
  /\ pc' = "validate"
  /\ failed_at_entry' = failed_events
  /\ valid_events' = <<>>
  /\ invalid_indices_and_errors' = <<>>
  /\ num_validation_failures' = 0
  /\ cursor' = 0
  /\ retry_set' = <<>>
  /\ attempt' = 0
  /\ terminal_failures' = <<>>
  /\ dispatch_log' = <<>>
  /\ mutate_calls' = 0
  /\ validate_calls' = <<>>
  /\ post_calls' = <<>>
  /\ UNCHANGED <<config, calls, validate_log, hook, dry_run, events, position,
                 failed_events, raised>>

NextResend ==
  \/ SendAgain
  \/ Next

SpecResend == InitResend /\ [][NextResend]_vars

(***************************************************************************)
(* What the claims speak about.                                            *)
(***************************************************************************)
Done == pc = "done"

\* The reported indices of the result, in order.
FailureIndices == [k \in 1..Len(failed_events) |-> failed_events[k][1]]

acceptedCount == Len(valid_events)

rejectedAtValidationCount == num_validation_failures

\* The accepted records the result does not report as failed.
successCount ==
  Cardinality({k \in 1..Len(valid_events) :
                 valid_events[k][1] + position \notin Range(FailureIndices)})

\* The entries of the failure list that dispatch wrote.
DispatchFailures ==
  SubSeq(invalid_indices_and_errors, num_validation_failures + 1,
         Len(invalid_indices_and_errors))

ValidationFailures == SubSeq(invalid_indices_and_errors, 1, num_validation_failures)

Ascending(indices) ==
  \A j, k \in 1..Len(indices) : j < k => indices[j] < indices[k]

FirstOf(pairs) == [k \in 1..Len(pairs) |-> pairs[k][1]]

\* How often index i occurs in a sequence of indices.
Count(indices, i) == Cardinality({k \in 1..Len(indices) : indices[k] = i})

\* The result the sink gave for record i the last time the latest batch's
\* mutate calls carried it, or "UNSENT".
LastResult(i) ==
  LET hits == {k \in 1..Len(dispatch_log) : i \in Range(dispatch_log[k].sent)} IN
  IF hits = {} THEN "UNSENT"
  ELSE LET k == CHOOSE h \in hits : \A g \in hits : g <= h
           j == CHOOSE x \in 1..Len(dispatch_log[k].sent) : dispatch_log[k].sent[x] = i
       IN dispatch_log[k].result[j]

\* The latest batch has had its last mutate call.
BatchResolved ==
  /\ hook = "ads" /\ pc \in {"dispatch", "aggregate", "done"}
  /\ dispatch_log # <<>>
  /\ attempt = 0
  /\ cursor = dispatch_log[1].batch + 1

(***************************************************************************)
(* C1.  Original statement: when a call has returned, successCount plus    *)
(* the number of failures equals the number of records validation          *)
(* accepted, and accepted plus rejected equals the input length.           *)
(***************************************************************************)
C1_Original ==
  Done => /\ successCount + Len(failed_events) = acceptedCount
          /\ acceptedCount + rejectedAtValidationCount = Len(events)

\* C1, amended: when a call has returned, successCount plus the number of
\* failures (validation rejections included) equals the input length,
\* successCount plus the dispatch failures equals the accepted count, and
\* accepted plus rejected equals the input length.
C1_Counts ==
  Done => /\ successCount + Len(failed_events) = Len(events)
          /\ successCount + Len(DispatchFailures) = acceptedCount
          /\ acceptedCount + rejectedAtValidationCount = Len(events)

C1_Witness ==
  /\ Done
  /\ rejectedAtValidationCount > 0
  /\ Len(DispatchFailures) > 0
  /\ successCount > 0

(***************************************************************************)
(* C2.  When a call over a blob with position p and n events has returned, *)
(* every reported index is unique and lies in [p, p + n).                  *)
(***************************************************************************)
C2_UniqueInRange ==
  Done => /\ \A j, k \in 1..Len(failed_events) :
               j # k => failed_events[j][1] # failed_events[k][1]
          /\ \A k \in 1..Len(failed_events) :
               /\ failed_events[k][1] >= position
               /\ failed_events[k][1] < position + Len(events)

C2_Witness ==
  /\ Done
  /\ position > 0
  /\ rejectedAtValidationCount > 0
  /\ Len(DispatchFailures) > 1

(***************************************************************************)
(* C3.  Original statement: when a call has returned, the failures are     *)
(* ordered by original index ascending.                                    *)
(***************************************************************************)
C3_Original == Done => Ascending(FailureIndices)

\* C3, amended: when a call has returned, the failures are the validation
\* rejections in ascending index order followed by the dispatch failures in
\* ascending index order.
C3_TwoRuns ==
  Done => /\ Len(failed_events) = Len(invalid_indices_and_errors)
          /\ Ascending(SubSeq(FailureIndices, 1, num_validation_failures))
          /\ Ascending(SubSeq(FailureIndices, num_validation_failures + 1,
                              Len(failed_events)))

C3_Witness ==
  /\ Done
  /\ rejectedAtValidationCount > 1
  /\ Len(DispatchFailures) > 1
  /\ ~Ascending(FailureIndices)

(***************************************************************************)
(* C4.  Store-sales hook, a batch of three whose first response names      *)
(* operation 0 as transient and operation 1 as rejected, and whose retry   *)
(* of operation 0 alone succeeds: the call ends after exactly two mutate   *)
(* calls with exactly one failure, record 1.                               *)
(***************************************************************************)
C4_Scenario ==
  /\ hook = "ads"
  /\ Len(events) = 3
  /\ Len(dispatch_log) = 2
  /\ dispatch_log[1].sent = <<0, 1, 2>>
  /\ dispatch_log[1].result = <<"RETRIABLE", "NON_RETRIABLE", "SUCCESS">>
  /\ dispatch_log[2].sent = <<0>>
  /\ dispatch_log[2].result = <<"SUCCESS">>

C4_MixedBatch ==
  (Done /\ C4_Scenario) =>
    /\ mutate_calls = 2
    /\ Len(failed_events) = 1
    /\ failed_events[1][1] = 1 + position

(***************************************************************************)
(* C5.  Store-sales hook, a call of one batch in which one record is       *)
(* reported as transient on every attempt and every other record succeeds  *)
(* at once: mutate is called exactly AttemptBound times and the call ends  *)
(* with exactly that record in the failures, with the retriable code.      *)
(***************************************************************************)
C5_Scenario(r) ==
  /\ hook = "ads"
  /\ Len(valid_events) = Len(events)
  /\ Len(events) <= DEFAULT_BATCH_SIZE
  /\ dispatch_log # <<>>
  /\ \A i \in Range(dispatch_log[1].sent) : i # r => LastResult(i) = "SUCCESS"
  /\ \A k \in 1..Len(dispatch_log) :
       /\ r \in Range(dispatch_log[k].sent)
       /\ \A j \in 1..Len(dispatch_log[k].sent) :
            dispatch_log[k].sent[j] = r => dispatch_log[k].result[j] = "RETRIABLE"
       /\ k > 1 => dispatch_log[k].sent = <<r>>

C5_ExhaustedRetry ==
  \A r \in 0..(Len(events) - 1) :
    (Done /\ C5_Scenario(r)) =>
      /\ mutate_calls = AttemptBound
      /\ failed_events =
           <<<<r + position, events[r + 1], ErrorValue(RETRIABLE_CODE)>>>>

(***************************************************************************)
(* C6.  Every mutate call of a batch after its first carries exactly the   *)
(* records the preceding call of that batch reported as transient, and     *)
(* there is at least one: a record that succeeded or was rejected is not   *)
(* sent again, and a batch without a transient failure gets one call.      *)
(***************************************************************************)
C6_RetryOnlyRetriable ==
  \A k \in 2..Len(dispatch_log) :
    LET before == dispatch_log[k - 1]
        again == dispatch_log[k].sent
        transient == {before.sent[j] : j \in {x \in 1..Len(before.sent) :
                                                before.result[x] = "RETRIABLE"}}
    IN /\ transient # {}
       /\ Range(again) = transient
       /\ Len(again) = Cardinality(transient)
       /\ Ascending(again)

C6_Witness ==
  /\ Len(dispatch_log) = 2
  /\ Len(dispatch_log[1].sent) = 3
  /\ Len(dispatch_log[2].sent) = 1
  /\ \E j \in 1..3 : dispatch_log[1].result[j] = "NON_RETRIABLE"
  /\ \E j \in 1..3 : dispatch_log[1].result[j] = "SUCCESS"

(***************************************************************************)
(* C7.  An authentication failure while a batch is dispatched leaves at    *)
(* least one failure entry, and no mutate call is made for a later batch.  *)
(***************************************************************************)
\* The batch, counted from 0, that holds the accepted record with index i.
BatchOf(i) ==
  ((CHOOSE k \in 1..Len(valid_events) : valid_events[k][1] = i) - 1)
    \div DEFAULT_BATCH_SIZE

AuthFailedBatches ==
  {BatchOf(invalid_indices_and_errors[k][1]) :
     k \in {x \in 1..Len(invalid_indices_and_errors) :
              invalid_indices_and_errors[x][2] = AUTH_CODE}}

C7_AuthHalts ==
  /\ (Done /\ AuthFailedBatches # {}) => failed_events # <<>>
  /\ \A b \in AuthFailedBatches :
       \A k \in 1..Len(dispatch_log) : dispatch_log[k].batch <= b

(***************************************************************************)
(* C8.  send_events on a constructed hook never raises, whatever the       *)
(* records and the responses are, and when every record fails the result   *)
(* lists every one of them.                                                *)
(***************************************************************************)
C8_NeverRaises ==
  /\ pc # "raised"
  /\ (Done /\ successCount = 0) => Len(failed_events) = Len(events)

(***************************************************************************)
(* C9.  Original statement: a GA4 record reported with a retriable code    *)
(* was requested AttemptBound times at the endpoint that failed.           *)
(***************************************************************************)
ReportedWith(code) ==
  {invalid_indices_and_errors[k][1] :
     k \in {x \in 1..Len(invalid_indices_and_errors) :
              invalid_indices_and_errors[x][2] = code}}

C10_NoSiblingFailure ==
  (/\ BatchResolved
   /\ \A k \in 1..Len(dispatch_log) : ~dispatch_log[k].auth
   /\ \A i \in Range(dispatch_log[1].sent) :
        LastResult(i) \in {"SUCCESS", "NON_RETRIABLE"})
  => \A i \in Range(dispatch_log[1].sent) :
       LastResult(i) = "SUCCESS" => i \notin Range(FirstOf(DispatchFailures))

(***************************************************************************)
(* C11.  Once validation of the store-sales hook has returned, every       *)
(* record that is a dict without transactionTime, microAmount,             *)
(* currencyCode or conversionName is listed with                           *)
(* ADS_SSD_HOOK_ERROR_MISSING_MANDATORY_FIELDS whatever its other fields   *)
(* hold, is not among the accepted events and is in no mutate call; and a  *)
(* call whose records all lack such a field never raises and makes no      *)
(* mutate call.                                                            *)
(***************************************************************************)
MandatoryFieldNames ==
  {"transactionTime", "microAmount", "currencyCode", "conversionName"}

LacksMandatoryField(event) ==
  event.isdict /\ \E f \in MandatoryFieldNames : f \notin DOMAIN event.d

C11_MissingMandatoryRejected ==
  /\ pc \in {"dispatch", "aggregate", "done"} =>
       \A i \in 0..(Len(events) - 1) :
         LacksMandatoryField(events[i + 1]) =>
           /\ <<i, MISSING_MANDATORY>> \in Range(ValidationFailures)
           /\ i \notin Range(FirstOf(valid_events))
           /\ \A k \in 1..Len(dispatch_log) : i \notin Range(dispatch_log[k].sent)
  /\ (pc # "validate"
        /\ \A i \in 0..(Len(events) - 1) : LacksMandatoryField(events[i + 1])) =>
       /\ pc # "raised"
       /\ mutate_calls = 0

\* A call has returned on a record without conversionName whose email is a
\* number and whose microAmount is None.
C11_Witness ==
  /\ Done /\ hook = "ads" /\ events # <<>>
  /\ LacksMandatoryField(events[1])
  /\ "conversionName" \notin DOMAIN events[1].d
  /\ "email" \in DOMAIN events[1].d /\ events[1].d["email"] = "NONSTR"
  /\ "microAmount" \in DOMAIN events[1].d /\ events[1].d["microAmount"] = "NONE"
  /\ mutate_calls = 0
  /\ Len(failed_events) = 1

(***************************************************************************)
(* C12.  Once validation of the store-sales hook has returned or raised,   *)
(* every record whose four mandatory fields are present and valid and      *)
(* that holds a hashed identifier (email, email2, email3, phoneNumber,     *)
(* phoneNumber2, phoneNumber3, firstName, lastName) whose value is None or *)
(* a string other than exactly 64 hexadecimal characters is listed with    *)
(* ADS_SSD_HOOK_ERROR_PAYLOAD_FIELD_VIOLATES_SHA256_FORMAT, other valid    *)
(* identifiers notwithstanding.                                            *)
(***************************************************************************)
HashedFieldNames ==
  {"email", "email2", "email3", "phoneNumber", "phoneNumber2", "phoneNumber3",
   "firstName", "lastName"}

MandatoryFieldsValid(event) ==
  /\ event.isdict
  /\ \A f \in MandatoryFieldNames : f \in DOMAIN event.d /\ event.d[f] = "GOOD"

\* Some hashed identifier of the record is present and is None or a string
\* other than exactly 64 hexadecimal characters.
HoldsBadHash(event) ==
  /\ event.isdict
  /\ \E f \in HashedFieldNames :
       f \in DOMAIN event.d /\ event.d[f] \in {"NONE", "EMPTY", "BAD", "GOOD_NL"}

C12_BadHashRejected ==
  pc # "validate" =>
    \A i \in 0..(Len(events) - 1) :
      (MandatoryFieldsValid(events[i + 1]) /\ HoldsBadHash(events[i + 1])) =>
        <<i, SHA256_ERROR>> \in Range(ValidationFailures)

(***************************************************************************)
(* C13.  Original statement: a GA4 record is listed with                   *)
(* RETRIABLE_GA4_HOOK_ERROR_HTTP_ERROR exactly when its request to the     *)
(* validate URL failed at the transport level or came back with a status   *)
(* outside 200..299; such a record is never posted; and every 2xx answer   *)
(* is classified by its validation messages.                               *)
(***************************************************************************)
TransportFailure(response) == response.kind # "Response"

Non2xx(response) ==
  response.kind = "Response"
    /\ (response.status_code < 200 \/ response.status_code >= 300)

\* Record i is accepted when the answer holds no message, and is rejected
\* once, with a code other than the retriable one, when it holds some.
ClassifiedByMessages(i, response) ==
  IF response.validationMessages = <<>>
  THEN /\ i \in Range(FirstOf(valid_events))
       /\ i \notin Range(FirstOf(ValidationFailures))
  ELSE /\ i \notin Range(FirstOf(valid_events))
       /\ Count(FirstOf(ValidationFailures), i) = 1
       /\ i \notin ReportedWith(RETRIABLE_GA4_HTTP_ERROR)

C13_Original ==
  /\ \A k \in 1..Len(validate_log) :
       LET i == validate_calls[k]
           response == validate_log[k]
       IN /\ i \in ReportedWith(RETRIABLE_GA4_HTTP_ERROR)
               <=> (TransportFailure(response) \/ Non2xx(response))
          /\ i \in ReportedWith(RETRIABLE_GA4_HTTP_ERROR) =>
               i \notin Range(post_calls)
          /\ (~TransportFailure(response) /\ ~Non2xx(response)
                /\ response.haskey) => ClassifiedByMessages(i, response)
  /\ \A i \in ReportedWith(RETRIABLE_GA4_HTTP_ERROR) : i \in Range(validate_calls)

(***************************************************************************)
(* C13, amended.  A GA4 record is listed with                              *)
(* RETRIABLE_GA4_HOOK_ERROR_HTTP_ERROR exactly when its request to the     *)
(* validate URL raised requests.ConnectionError or came back with a status *)
(* other than 200; such a record is never posted; and every answer of      *)
(* status 200 that holds validationMessages is classified by them.         *)
(***************************************************************************)
C13_Not200 ==
  /\ \A k \in 1..Len(validate_log) :
       LET i == validate_calls[k]
           response == validate_log[k]
       IN /\ i \in ReportedWith(RETRIABLE_GA4_HTTP_ERROR)
               <=> \/ response.kind = "ConnectionError"
                   \/ response.kind = "Response" /\ response.status_code # 200
          /\ i \in ReportedWith(RETRIABLE_GA4_HTTP_ERROR) =>
               i \notin Range(post_calls)
          /\ (response.kind = "Response" /\ response.status_code = 200
                /\ response.haskey) => ClassifiedByMessages(i, response)
  /\ \A i \in ReportedWith(RETRIABLE_GA4_HTTP_ERROR) : i \in Range(validate_calls)

\* A call has returned whose record the validate URL answered with 204 and
\* which is reported with the retriable code, unposted.
C13_Witness ==
  /\ Done /\ hook = "ga4" /\ ~dry_run
  /\ validate_log = <<Response(204, TRUE, <<>>)>>
  /\ failed_events = <<<<0, events[1], ErrorValue(RETRIABLE_GA4_HTTP_ERROR)>>>>
  /\ post_calls = <<>>

(***************************************************************************)
(* C14.  A GA4 record whose validate answer has status 200 is classified   *)
(* by the first validation message alone: with no message it is accepted   *)
(* and, in a call that is no dry run and has returned, posted once; else   *)
(* it is rejected, never posted, and listed exactly once, with the code of *)
(* the first key of _ERROR_TYPES, in table order, that equals the first    *)
(* message's field path or occurs in its description, and with             *)
(* GA4_HOOK_ERROR_INVALID_VALUES when no key does; the later messages have *)
(* no part in it.                                                          *)
(***************************************************************************)
\* The positions in _ERROR_TYPES of the keys the message matches.
MatchingKeys(message) ==
  {n \in 1..Len(ERROR_TYPE_KEYS) :
     \/ ERROR_TYPE_KEYS[n] = message.fieldPath
     \/ ERROR_TYPE_KEYS[n] \in message.description}

\* The codes record i is listed with.
CodesOf(i) ==
  {invalid_indices_and_errors[k][2] :
     k \in {x \in 1..Len(invalid_indices_and_errors) :
              invalid_indices_and_errors[x][1] = i}}

C14_FirstMessageDecides ==
  \A k \in 1..Len(validate_log) :
    LET i == validate_calls[k]
        response == validate_log[k]
    IN (response.kind = "Response" /\ response.status_code = 200
          /\ response.haskey) =>
         IF response.validationMessages = <<>>
         THEN /\ i \in Range(FirstOf(valid_events))
              /\ i \notin Range(FirstOf(ValidationFailures))
              /\ (Done /\ ~dry_run) => Count(post_calls, i) = 1
         ELSE LET hits == MatchingKeys(response.validationMessages[1]) IN
              /\ i \notin Range(FirstOf(valid_events))
              /\ i \notin Range(post_calls)
              /\ Count(FirstOf(invalid_indices_and_errors), i) = 1
              /\ hits = {} => CodesOf(i) = {INVALID_VALUES}
              /\ hits # {} =>
                   \E n \in hits :
                     /\ \A h \in hits : n <= h
                     /\ CodesOf(i) = {ERROR_TYPES[ERROR_TYPE_KEYS[n]]}

\* A call has returned whose record was answered with two messages, the
\* first mentioning events.params (and so events), the second naming
\* client_id: the record is reported with the code of events.
C14_Witness ==
  /\ Done /\ hook = "ga4"
  /\ validate_log =
       <<Response(200, TRUE, <<Message("NONE", {"events", "events.params"}),
                               Message("client_id", {})>>)>>
  /\ failed_events =
       <<<<0, events[1], ErrorValue("GA4_HOOK_ERROR_VALUE_INVALID_EVENTS")>>>>

(***************************************************************************)
(* C15.  Once the loop of _validate_events_to_send has passed it, a GA4    *)
(* record that is a dict without 'id', without 'payload', or with a        *)
(* payload that is no JSON is listed once, with                            *)
(* GA4_HOOK_ERROR_INVALID_JSON_STRUCTURE, is not accepted, and has caused  *)
(* no request to the validate URL or the collect URL; a call whose records *)
(* are all of this kind never raises and makes no request at all.          *)
(***************************************************************************)
Unparseable(event) ==
  /\ event.isdict
  /\ \/ "id" \notin DOMAIN event.d
     \/ "payload" \notin DOMAIN event.d
     \/ event.d["payload"] = "BADJSON"

PassedValidation(i) ==
  \/ pc = "validate" /\ cursor > i
  \/ pc \in {"send", "aggregate", "done"}

C15_UnparseableRejected ==
  /\ \A i \in 0..(Len(events) - 1) :
       (Unparseable(events[i + 1]) /\ PassedValidation(i)) =>
         /\ CodesOf(i) = {INVALID_JSON_STRUCTURE}
         /\ Count(FirstOf(invalid_indices_and_errors), i) = 1
         /\ i \notin Range(FirstOf(valid_events))
         /\ i \notin Range(validate_calls)
         /\ i \notin Range(post_calls)
  /\ (\A i \in 0..(Len(events) - 1) : Unparseable(events[i + 1])) =>
       /\ pc # "raised"
       /\ validate_calls = <<>>
       /\ post_calls = <<>>

\* A call has returned on a record without 'id' and a record whose payload
\* is no JSON, both reported, no request made.
C15_Witness ==
  /\ Done /\ hook = "ga4" /\ Len(events) = 2
  /\ "id" \notin DOMAIN events[1].d
  /\ "payload" \in DOMAIN events[2].d /\ events[2].d["payload"] = "BADJSON"
  /\ "id" \in DOMAIN events[2].d
  /\ failed_events =
       <<<<0, events[1], ErrorValue(INVALID_JSON_STRUCTURE)>>,
         <<1, events[2], ErrorValue(INVALID_JSON_STRUCTURE)>>>>
  /\ validate_calls = <<>> /\ post_calls = <<>>

(***************************************************************************)
(* C16.  With arguments that violate a precondition (GA4: an empty         *)
(* api_secret, a payload_type that is neither gtag nor firebase, firebase  *)
(* without firebase_app_id, gtag without measurement_id; store sales: an   *)
(* empty external upload id) the constructor raises: the hook is either    *)
(* not yet built or its construction has raised a DataOutConnector error,  *)
(* and no send_events has begun on it, made a request or reported          *)
(* anything.                                                               *)
(***************************************************************************)
Empty(argument) == argument \in {"NONE", "EMPTY"}

ViolatesPrecondition ==
  IF hook = "ga4"
  THEN \/ Empty(config.api_secret)
       \/ config.payload_type \notin {"gtag", "firebase"}
       \/ config.payload_type = "firebase" /\ Empty(config.firebase_app_id)
       \/ config.payload_type = "gtag" /\ Empty(config.measurement_id)
  ELSE Empty(config.external_upload_id)

C16_ConstructorRaises ==
  ViolatesPrecondition =>
    /\ pc \in {"new", "raised"}
    /\ pc = "raised" =>
         raised \in {"DataOutConnectorAuthenticationError",
                     "DataOutConnectorError", "DataOutConnectorValueError"}
    /\ valid_events = <<>> /\ invalid_indices_and_errors = <<>>
    /\ validate_calls = <<>> /\ post_calls = <<>> /\ mutate_calls = 0
    /\ failed_events = <<>> /\ calls = 0

\* The construction of a gtag hook that was given a firebase_app_id and no
\* measurement_id has raised.
C16_Witness ==
  /\ hook = "ga4" /\ pc = "raised" /\ raised = "DataOutConnectorError"
  /\ config = [api_secret |-> "GOOD", payload_type |-> "gtag",
               measurement_id |-> "EMPTY", firebase_app_id |-> "GOOD"]

(***************************************************************************)
(* C17.  _batch_generator cuts a list of accepted indexed records into     *)
(* contiguous batches: their concatenation, in order, is the list itself   *)
(* (so no record is dropped, duplicated or re-indexed), every batch is     *)
(* non-empty and holds at most _DEFAULT_BATCH_SIZE records, every batch    *)
(* but the last holds exactly that many, and the empty list yields no      *)
(* batch.  Stated where send_events calls it, of the accepted events of    *)
(* the call, and of that list twice over, which spans a third batch.       *)
(***************************************************************************)
RECURSIVE Concatenation(_, _)
Concatenation(batches, k) ==
  IF k > Len(batches) THEN <<>>
  ELSE batches[k] \o Concatenation(batches, k + 1)

C17_BatchesPartition ==
  (hook = "ads" /\ pc = "dispatch" /\ mutate_calls = 0) =>
    \A evs \in {valid_events, valid_events \o valid_events} :
      LET batches == batch_generator(evs) IN
      /\ Concatenation(batches, 1) = evs
      /\ \A k \in 1..Len(batches) :
           /\ batches[k] # <<>>
           /\ Len(batches[k]) <= DEFAULT_BATCH_SIZE
           /\ k < Len(batches) => Len(batches[k]) = DEFAULT_BATCH_SIZE
      /\ evs = <<>> => batches = <<>>

\* The accepted events span two batches, the second one short, and twice
\* the list spans three.
C17_Witness ==
  /\ hook = "ads" /\ pc = "dispatch"
  /\ Len(batch_generator(valid_events)) = 2
  /\ Len(batch_generator(valid_events)[2]) < DEFAULT_BATCH_SIZE
  /\ Len(batch_generator(valid_events \o valid_events)) = 3

(***************************************************************************)
(* C18.  Original statement: when a second send_events over the same blob  *)
(* has returned, having listed the same failures as the first call did,    *)
(* blob.failed_events equals what the first call left.                     *)
(***************************************************************************)
\* The entries the current call has appended to blob.failed_events.
EntriesOfThisCall ==
  SubSeq(failed_events, Len(failed_at_entry) + 1, Len(failed_events))

SecondCallRepeatsFirst ==
  /\ Done /\ calls = 2
  /\ EntriesOfThisCall = failed_at_entry

C18_Original == SecondCallRepeatsFirst => failed_events = failed_at_entry

(***************************************************************************)
(* C18, amended.  A call never removes an entry of blob.failed_events: it  *)
(* appends one entry per failure it lists to what the blob held on entry.  *)
(* So when a second send_events over the same blob has returned, having    *)
(* listed the same failures as the first, blob.failed_events is the first  *)
(* call's entries twice over, and equals what the first call left only     *)
(* when the first call reported no failure.                                *)
(***************************************************************************)
C18_Accumulates ==
  /\ Len(failed_events) >= Len(failed_at_entry)
  /\ SubSeq(failed_events, 1, Len(failed_at_entry)) = failed_at_entry
  /\ Done => Len(failed_events)
               = Len(failed_at_entry) + Len(invalid_indices_and_errors)
  /\ SecondCallRepeatsFirst =>
       /\ failed_events = failed_at_entry \o failed_at_entry
       /\ failed_events = failed_at_entry <=> failed_at_entry = <<>>

\* A second call has returned that failed the blob's one record as the
\* first call did: the record is reported twice.
C18_Witness ==
  /\ SecondCallRepeatsFirst
  /\ Len(events) = 1
  /\ Len(failed_at_entry) = 1
  /\ Len(failed_events) = 2
  /\ failed_events[1] = failed_events[2]

C20_EntryCarries ==
  Done =>
    /\ Len(failed_events) = Len(invalid_indices_and_errors)
    /\ \A k \in 1..Len(failed_events) :
         LET i == invalid_indices_and_errors[k][1]
             code == invalid_indices_and_errors[k][2]
             entry == failed_events[k]
         IN /\ entry[1] = i + position
            /\ entry[2] = events[i + 1]
            /\ entry[3] = ErrorValue(code)
            /\ IF k <= num_validation_failures
               THEN /\ i \notin Range(FirstOf(valid_events))
                    /\ hook = "ads" => format_event(entry[2]) = Err(code)
                    /\ (hook = "ga4" /\ code = INVALID_JSON_STRUCTURE) =>
                         Unparseable(entry[2])
               ELSE i \in Range(FirstOf(valid_events))

\* A call on a blob at a position past 0 has returned with a failure from
\* validation and a failure from dispatch.
C20_Witness ==
  /\ Done /\ position > 0
  /\ num_validation_failures > 0
  /\ Len(failed_events) > num_validation_failures

(***************************************************************************)
(* C21.  blob.failed_events holds no entry of the call until the call has  *)
(* passed its last dispatch: whenever it holds one, the call has returned, *)
(* every batch of the accepted events has had its last mutate call (store  *)
(* sales), or every accepted record has been through _send_payload, which  *)
(* posted it unless dry_run is set (GA4).  Failures of validation and of   *)
(* dispatch alike are written only then.                                   *)
(***************************************************************************)
AllDispatched ==
  IF hook = "ads"
  THEN /\ cursor = Len(batch_generator(valid_events))
       /\ attempt = 0
       /\ retry_set = <<>>
  ELSE /\ cursor = Len(valid_events)
       /\ ~dry_run => post_calls = FirstOf(valid_events)

C21_MergeIsBarrier ==
  /\ pc # "done" => failed_events = <<>>
  /\ failed_events # <<>> => AllDispatched

\* A store-sales call over two batches has returned, the first batch
\* delivered, the one record of the second reported as failed.
C21_Witness ==
  /\ Done /\ hook = "ads"
  /\ Len(batch_generator(valid_events)) = 2
  /\ Len(failed_events) = 1
  /\ failed_events[1][1] = DEFAULT_BATCH_SIZE + position
  /\ mutate_calls >= 2

(***************************************************************************)
(* C22.  Every call ends after finitely many steps, by returning or by     *)
(* raising: a call that has not ended can take a step, and every step      *)
(* lowers StepsLeft, a natural number.  No batch has more mutate calls     *)
(* than the attempt bound, and once a batch has had its last one, each of  *)
(* its records is listed as failed at most once and is a success           *)
(* otherwise; a GA4 record is posted at most once and listed at most once. *)
(***************************************************************************)
Terminated == pc \in {"done", "raised"}

\* An upper bound on the steps the call has yet to take.
StepsLeft ==
  CASE Terminated -> 0
    [] pc = "aggregate" -> 1
    [] pc = "dispatch" ->
         2 + AttemptBound * (Len(batch_generator(valid_events)) - cursor) - attempt
    [] pc = "send" -> 2 + Len(valid_events) - cursor
    [] hook = "ads" -> 3 + AttemptBound * Len(events)
    [] OTHER -> 3 + 2 * Len(events) - cursor

\* The indices of the records of the batch the dispatch log is about.
LatestBatchIndices ==
  Range(FirstOf(batch_generator(valid_events)[dispatch_log[1].batch + 1]))

DispatchesBounded ==
  /\ attempt < AttemptBound
  /\ Len(dispatch_log) <= AttemptBound
  /\ mutate_calls <= AttemptBound * Len(batch_generator(valid_events))
  /\ \A i \in Range(FirstOf(valid_events)) : Count(post_calls, i) <= 1

AccountedOnce ==
  /\ BatchResolved =>
       \A i \in LatestBatchIndices :
         Count(FirstOf(invalid_indices_and_errors), i) <= 1
  /\ (hook = "ga4" /\ pc = "send") =>
       \A k \in 1..cursor :
         Count(FirstOf(invalid_indices_and_errors), valid_events[k][1]) <= 1

C22_Terminates ==
  /\ [](DispatchesBounded /\ AccountedOnce)
  /\ [](StepsLeft >= 0 /\ (~Terminated => ENABLED Next))
  /\ [][StepsLeft' < StepsLeft]_vars

\* A batch has had as many mutate calls as the attempt bound allows and the
\* call has gone on to return.
C22_Witness ==
  /\ Done /\ hook = "ads"
  /\ Len(dispatch_log) = AttemptBound
  /\ failed_events # <<>>

(***************************************************************************)
(* C23.  When add_store_sales_conversions ends a batch by raising          *)
(* DataOutConnectorSendUnsuccessfulError, the step lists every record of   *)
(* that batch, once and in batch order, with the error's code, lists no    *)
(* record of another batch and leaves the earlier entries as they were;    *)
(* the loop then goes on with the next batch, so that a call which reaches *)
(* the closing loop has dispatched every batch, in input order.            *)
(***************************************************************************)
\* The error the mutate call of this step ends the batch with, <<>> when it
\* ends it without raising; read after the step from the log's last entry.
FailuresRaised ==
  LET last == dispatch_log'[Len(dispatch_log')]
      response == [auth |-> last.auth, result |-> last.result]
  IN final_failures(retry_set, response, terminal_failures)

BatchEnds == hook = "ads" /\ pc = "dispatch" /\ cursor' = cursor + 1

BatchRaises == BatchEnds /\ FailuresRaised # <<>>

\* The entries this step adds to invalid_indices_and_errors.
AddedEntries ==
  SubSeq(invalid_indices_and_errors', Len(invalid_indices_and_errors) + 1,
         Len(invalid_indices_and_errors'))

WholeBatchFails ==
  BatchRaises =>
    /\ SubSeq(invalid_indices_and_errors', 1, Len(invalid_indices_and_errors))
         = invalid_indices_and_errors
    /\ FirstOf(AddedEntries) = FirstOf(current_batch)
    /\ \A k \in 1..Len(AddedEntries) :
         AddedEntries[k][2] = FailuresRaised[1][2]
    /\ \A b \in 1..Len(batch_generator(valid_events)) :
         b # cursor + 1 =>
           Range(FirstOf(AddedEntries))
             \cap Range(FirstOf(batch_generator(valid_events)[b])) = {}

LoopGoesOn ==
  BatchEnds =>
    /\ pc' = "dispatch" /\ raised' = "none" /\ attempt' = 0
    /\ cursor' < Len(batch_generator(valid_events)) =>
         retry_set' = batch_generator(valid_events)[cursor' + 1]
    /\ ~BatchRaises => invalid_indices_and_errors' = invalid_indices_and_errors

\* The mutate calls of a batch start with the whole batch, and batches are
\* taken one after the other.
DispatchedInOrder ==
  hook = "ads" =>
    /\ dispatch_log # <<>> =>
         /\ dispatch_log[1].batch \in {cursor - 1, cursor}
         /\ dispatch_log[1].sent =
              FirstOf(batch_generator(valid_events)[dispatch_log[1].batch + 1])
    /\ mutate_calls >= cursor
    /\ pc \in {"aggregate", "done"} =>
         cursor = Len(batch_generator(valid_events))

Passes == [outcome |-> "pass", code |-> "none"]
Fails(code) == [outcome |-> "fail", code |-> code]
CannotEvaluate == [outcome |-> "raise", code |-> "none"]

\* A check on a field holding a value of class v that must match a pattern
\* of strings.
PatternCheck(v, code) ==
  CASE v \in {"GOOD", "GOOD_NL"} -> Passes
    [] v \in {"EMPTY", "BAD"} -> Fails(code)
    [] OTHER -> CannotEvaluate

HashedPresent(d) ==
  SelectSeq(identifier_fields, LAMBDA f : f \in DOMAIN d /\ f \in HashedFields)

\* The digest check of one hashed identifier; it answers for None as well.
DigestCheck(v) ==
  IF v = "NONE" THEN Fails(SHA256_ERROR) ELSE PatternCheck(v, SHA256_ERROR)

\* The first hashed identifier present, in table order, that is no digest
\* decides the digest check.
DigestsCheck(d) ==
  LET present == HashedPresent(d)
      outcomes == [k \in 1..Len(present) |-> DigestCheck(d[present[k]])]
      open == {k \in 1..Len(outcomes) : outcomes[k] # Passes}
  IN IF open = {} THEN Passes
     ELSE outcomes[CHOOSE k \in open : \A j \in open : k <= j]

\* The seven checks of a record that holds the four mandatory fields, in the
\* order of the claim.
ChecksInOrder(d) ==
  <<Passes,
    DigestsCheck(d),
    IF DOMAIN d \cap Range(identifier_fields) = {}
      THEN Fails(MISSING_IDENTIFIER) ELSE Passes,
    PatternCheck(d["transactionTime"], INVALID_TIME),
    IF d["microAmount"] = "NONE" THEN CannotEvaluate
      ELSE PatternCheck(d["microAmount"], INVALID_VALUE),
    IF d["currencyCode"] \in {"NONE", "EMPTY"}
      THEN Fails(INVALID_CURRENCY) ELSE Passes,
    IF d["conversionName"] = "NONE" THEN Fails(INVALID_NAME_LENGTH)
      ELSE PatternCheck(d["conversionName"], INVALID_NAME_LENGTH)>>

Checks(event) ==
  IF ~event.isdict THEN <<CannotEvaluate>>
  ELSE IF ~(Range(store_sales_transaction_fields) \subseteq DOMAIN event.d)
  THEN <<Fails(MISSING_MANDATORY)>>
  ELSE ChecksInOrder(event.d)

\* The first check of the list that is not passed; Passes when all are.
FirstOpen(checks) ==
  LET open == {k \in 1..Len(checks) : checks[k] # Passes} IN
  IF open = {} THEN Passes
  ELSE checks[CHOOSE k \in open : \A j \in open : k <= j]

FirstNotPassed(event) == FirstOpen(Checks(event))

NotPassed(event) ==
  LET checks == Checks(event) IN {k \in 1..Len(checks) : checks[k] # Passes}

ValidationEntries == SubSeq(invalid_indices_and_errors, 1, num_validation_failures)

\* Validation has just returned or raised, or the call has returned.
ValidationSettled ==
  /\ hook = "ads"
  /\ \/ pc = "raised"
     \/ pc = "dispatch" /\ mutate_calls = 0
     \/ Done

C24_FirstFailingCheckDecides ==
  ValidationSettled =>
    LET first == [k \in 1..Len(events) |-> FirstNotPassed(events[k])] IN
    IF \E k \in 1..Len(events) : first[k].outcome = "raise"
    THEN pc = "raised" /\ failed_events = <<>>
    ELSE /\ pc # "raised"
         /\ \A i \in 0..(Len(events) - 1) :
              IF first[i + 1].outcome = "fail"
              THEN /\ Count(FirstOf(ValidationEntries), i) = 1
                   /\ <<i, first[i + 1].code>> \in Range(ValidationEntries)
                   /\ Count(FirstOf(valid_events), i) = 0
                   /\ Done =>
                        /\ Count(FirstOf(failed_events), i + position) = 1
                        /\ <<i + position, events[i + 1],
                             ErrorValue(first[i + 1].code)>>
                             \in Range(failed_events)
              ELSE /\ Count(FirstOf(valid_events), i) = 1
                   /\ Count(FirstOf(ValidationEntries), i) = 0

\* A record that fails the transactionTime check and at least two of the
\* checks behind it was listed once, for transactionTime.
C24_Witness ==
  /\ Done /\ hook = "ads" /\ Len(events) = 1
  /\ FirstNotPassed(events[1]) = Fails(INVALID_TIME)
  /\ Cardinality(NotPassed(events[1])) >= 3
  /\ failed_events = <<<<position, events[1], ErrorValue(INVALID_TIME)>>>>

(***************************************************************************)
(* C25.  On a GA4 hook built with dry_run, no record is ever posted to the *)
(* post URL and the list of failures holds validation entries only; every  *)
(* record the validation loop has come to whose payload is a JSON object   *)
(* and which holds an id was posted to the validate URL exactly once, no   *)
(* other record was, and when the call has returned every validation       *)
(* entry is in blob.failed_events and nothing else is.                     *)
(***************************************************************************)
WellFormedPayload(event) ==
  /\ event.isdict
  /\ {"id", "payload"} \subseteq DOMAIN event.d
  /\ event.d["payload"] = "OBJ"

\* The records the validation loop has dealt with, by index.
Validated ==
  IF pc \in {"validate", "raised"} THEN 0..(cursor - 1)
  ELSE 0..(Len(events) - 1)

C25_DryRunPostsNothing ==
  (hook = "ga4" /\ dry_run) =>
    /\ post_calls = <<>>
    /\ Len(invalid_indices_and_errors) = num_validation_failures
    /\ \A i \in Validated :
         Count(validate_calls, i) = IF WellFormedPayload(events[i + 1]) THEN 1 ELSE 0
    /\ \A i \in Validated :
         Count(FirstOf(valid_events), i) + Count(FirstOf(invalid_indices_and_errors), i)
           = 1
    /\ Done =>
         failed_events =
           [k \in 1..num_validation_failures |->
              <<invalid_indices_and_errors[k][1] + position,
                events[invalid_indices_and_errors[k][1] + 1],
                ErrorValue(invalid_indices_and_errors[k][2])>>]

\* A dry run has returned: one record passed validation and was not posted,
\* another was rejected by the validate URL and is reported.
C25_Witness ==
  /\ Done /\ hook = "ga4" /\ dry_run
  /\ valid_events # <<>>
  /\ post_calls = <<>>
  /\ \E k \in 1..Len(failed_events) :
       /\ failed_events[k][1] - position \in Range(validate_calls)
       /\ failed_events[k][3] # ErrorValue(INVALID_JSON_STRUCTURE)

====
